---- MODULE Spec2Model ----
(***************************************************************************)
(* A model of @jsheaven/observed (src/src/index.ts): the observation proxy *)
(* (observed / mayObserve), its get and set traps, and the per-node        *)
(* listener registry (onSet / offSet / getObservers / isObserved).         *)
(*                                                                         *)
(* The JavaScript heap is a finite pool of objects.  A value is a record   *)
(* [t, v]: a primitive (undefined, null, a number) or a reference, either  *)
(* to a plain object ("raw") or to the Proxy created over it ("prox").     *)
(* The two symbol-keyed properties the library defines on the target      *)
(* (observedSymbol, observedCallbacksSymbol) are the fields observed and   *)
(* hasCbs/cbs of an object.  Every library function is an operator from a  *)
(* machine state st to a machine state (and a return value); an action     *)
(* runs one call of the public API to completion, as the single-threaded   *)
(* runtime does.                                                           *)
(***************************************************************************)
EXTENDS Integers, Sequences, FiniteSets, TLC

\* ---------------------------------------------------------------- bounds
NObj == 3
MaxNum == 4
MaxReg == 2
MaxOps == 4

Objs == 1..NObj
Keys == {"a", "b"}
\* the deepest chain of nested observed calls an acyclic heap can cause
MaxDepth == 2 * NObj + 2

\* ---------------------------------------------------------------- values
Undef == [t |-> "undef", v |-> 0]
Null == [t |-> "null", v |-> 0]
Num(n) == [t |-> "num", v |-> n]
Raw(o) == [t |-> "raw", v |-> o]
Prox(o) == [t |-> "prox", v |-> o]

\* typeof value === 'object' && value !== null
IsComposite(value) == value.t \in {"raw", "prox"}

\* ------------------------------------------------------------- callbacks
NoArg == "none"
NotAFunction == "notfn"
NoErr == "ok"
\* the object a cbObj hook returns (a plain object the hook holds on to)
HookObj == NObj
Callbacks == {"cbSame", "cbDbl", "cbInc", "cbVoid", "cbObj", "cbAdd", "cbOff", "cbThrow"}
\* the error a throwing callback raises
CallbackError == "callback threw"

\* typeof callback === 'function'
IsFunction(callback) == callback \in Callbacks

\* what a callback returns for the value it is handed
CbReturn(cb, value) ==
  CASE cb = "cbDbl" -> IF value.t = "num" THEN Num(2 * value.v) ELSE value
    [] cb = "cbInc" -> IF value.t = "num" THEN Num(value.v + 1) ELSE value
    [] cb = "cbVoid" -> Undef
    [] cb = "cbObj" -> Raw(HookObj)
    [] OTHER -> value

\* --------------------------------------------------------------- options
defaultOptions == [deep |-> "true", onBeforeSet |-> NoArg, onSet |-> NoArg, onGet |-> NoArg]

\* { ...defaultOptions, ...options }
MergeOptions(options) ==
  [options EXCEPT !.deep = IF @ = "unset" THEN defaultOptions.deep ELSE @]

\* ------------------------------------------------------------------ heap
PlainObject(ks, fs) ==
  [keys |-> ks, fields |-> fs, observed |-> FALSE, hasCbs |-> FALSE, cbs |-> <<>>,
   opts |-> defaultOptions]

NoFields == [k \in Keys |-> Undef]

\* ---------------------------------------------------------- machine state
DeadFrame == [node |-> 0, observers |-> <<>>, live |-> FALSE]

Start(h, rl) ==
  [heap |-> h, ref |-> rl, log |-> <<>>, caps |-> <<>>, err |-> NoErr, wid |-> 0,
   frame |-> DeadFrame]

Ev(kind, w, node, key, cb, idx, val, old, ret) ==
  [kind |-> kind, w |-> w, node |-> node, key |-> key, cb |-> cb, idx |-> idx,
   val |-> val, old |-> old, ret |-> ret]

Log(st, e) == [st EXCEPT !.log = Append(@, e)]

Throw(st, msg) == [st EXCEPT !.err = msg]

\* ------------------------------------------------------------ get trap
\* Proxy get trap: the value comes from the target; options.onGet, when a
\* function, is called with it and its result is dropped.
proxyGet(st, o, key, value) ==
  IF IsFunction(st.heap[o].opts.onGet)
  THEN Log(st, Ev("onGet", 0, o, key, st.heap[o].opts.onGet, 0, value, Undef,
                  CbReturn(st.heap[o].opts.onGet, value)))
  ELSE st

\* a get trap that returns what the hook returned
readPropUsesHookResult(st, ref, key) ==
  [st |-> IF ref.t = "prox" THEN proxyGet(st, ref.v, key, st.heap[ref.v].fields[key]) ELSE st,
   ret |-> IF ref.t = "prox" /\ IsFunction(st.heap[ref.v].opts.onGet)
           THEN CbReturn(st.heap[ref.v].opts.onGet, st.heap[ref.v].fields[key])
           ELSE st.heap[ref.v].fields[key]]

\* object[key] for a string key: through the get trap when object is a Proxy
readProp(st, ref, key) ==
  [st |-> IF ref.t = "prox" THEN proxyGet(st, ref.v, key, st.heap[ref.v].fields[key]) ELSE st,
   ret |-> st.heap[ref.v].fields[key]]

\* object[symbol]: the same read for one of the two symbol keys (the caller
\* takes the property itself from the heap)
readSym(st, ref, sym) ==
  IF ref.t = "prox" THEN proxyGet(st, ref.v, sym, Undef) ELSE st

\* ------------------------------------------------------------- registry
\* Object.defineProperty(object, observedCallbacksSymbol, {value: arr, ...}):
\* the property now holds a new array, so an array captured earlier by a
\* running set trap is no longer the one the property holds.
defineCallbacks(st, o, arr) ==
  [st EXCEPT !.heap[o].hasCbs = TRUE,
             !.heap[o].cbs = arr,
             !.frame = IF @.node = o THEN [@ EXCEPT !.live = FALSE] ELSE @]

\* if (!object[observedCallbacksSymbol]) defineProp(object, ..., []), the
\* property read already made
ensureCallbacks(st, o) ==
  IF ~st.heap[o].hasCbs THEN defineCallbacks(st, o, <<>>) ELSE st

\* initCallbackArray without its test: the registry is defined anew each time
initCallbackArrayResets(st, ref) ==
  defineCallbacks(readSym(st, ref, "observedCallbacks"), ref.v, <<>>)

initCallbackArray(st, ref) ==
  ensureCallbacks(readSym(st, ref, "observedCallbacks"), ref.v)

\* object[observedCallbacksSymbol].push(entry): into the array the property
\* holds, which a running set trap of that node may have captured
pushCallback(st, o, entry) ==
  [st EXCEPT !.heap[o].cbs = Append(@, entry),
             !.frame = IF @.live /\ @.node = o
                       THEN [@ EXCEPT !.observers = Append(@, entry)]
                       ELSE @]

\* defineProp(object, observedCallbacksSymbol, [...object[observedCallbacksSymbol]])
copyCallbacks(st, o) == defineCallbacks(st, o, st.heap[o].cbs)

\* onSet that looks at the callback only once the registry is there
onSetChecksLate(st, ref, callback, phase) ==
  IF ~IsFunction(callback)
  THEN Throw(initCallbackArray(st, ref), "callback must be a function")
  ELSE copyCallbacks(
         readSym(pushCallback(readSym(initCallbackArray(st, ref), ref, "observedCallbacks"),
                              ref.v,
                              [cb |-> callback,
                               phase |-> IF phase = NoArg THEN "after" ELSE phase]),
                 ref, "observedCallbacks"),
         ref.v)

onSet(st, ref, callback, phase) ==
  IF ~IsFunction(callback) THEN Throw(st, "callback must be a function")
  ELSE copyCallbacks(
         readSym(pushCallback(readSym(initCallbackArray(st, ref), ref, "observedCallbacks"),
                              ref.v,
                              [cb |-> callback,
                               phase |-> IF phase = NoArg THEN "after" ELSE phase]),
                 ref, "observedCallbacks"),
         ref.v)

\* object[observedCallbacksSymbol].filter(registration => registration.cb !== callback)
filterCallbacks(st, o, callback) ==
  LET keep(callbackRegistration) == callbackRegistration.cb # callback
  IN defineCallbacks(st, o, SelectSeq(st.heap[o].cbs, keep))

\* offSet(object, callback) for a function: the Array.isArray test is made
removeCallback(st, ref, callback) ==
  IF ~st.heap[ref.v].hasCbs THEN Throw(st, "callback is not registered")
  ELSE filterCallbacks(readSym(st, ref, "observedCallbacks"), ref.v, callback)

\* offSet that, called without a callback, drops the 'after' registrations only
offSetKeepsBefore(st, ref, callback) ==
  IF callback = NoArg
  THEN LET before(callbackRegistration) == callbackRegistration.phase = "before"
       IN defineCallbacks(st, ref.v, SelectSeq(st.heap[ref.v].cbs, before))
  ELSE IF ~IsFunction(callback) THEN Throw(st, "callback must be a function")
  ELSE removeCallback(readSym(st, ref, "observedCallbacks"), ref, callback)

\* filter that stops at the first registration of the callback
filterFirstMatch(st, o, callback) ==
  LET arr == st.heap[o].cbs
      hits == {i \in 1..Len(arr) : arr[i].cb = callback}
      first == IF hits = {} THEN 0 ELSE CHOOSE i \in hits : \A j \in hits : i <= j
  IN defineCallbacks(st, o,
                     [i \in 1..(Len(arr) - (IF first = 0 THEN 0 ELSE 1)) |->
                        IF first = 0 \/ i < first THEN arr[i] ELSE arr[i + 1]])

\* offSet that removes only the first registration of the callback
offSetFirstMatch(st, ref, callback) ==
  IF callback = NoArg THEN defineCallbacks(st, ref.v, <<>>)
  ELSE IF ~IsFunction(callback) THEN Throw(st, "callback must be a function")
  ELSE IF ~st.heap[ref.v].hasCbs
       THEN Throw(readSym(st, ref, "observedCallbacks"), "callback is not registered")
  ELSE filterFirstMatch(readSym(readSym(st, ref, "observedCallbacks"), ref,
                                "observedCallbacks"),
                        ref.v, callback)

offSet(st, ref, callback) ==
  IF callback = NoArg THEN defineCallbacks(st, ref.v, <<>>)
  ELSE IF ~IsFunction(callback) THEN Throw(st, "callback must be a function")
  ELSE removeCallback(readSym(st, ref, "observedCallbacks"), ref, callback)

isObserved(st, ref) ==
  [st |-> readSym(st, ref, "observed"), ret |-> st.heap[ref.v].observed]

getObservers(st, ref) ==
  [st |-> readSym(st, ref, "observedCallbacks"),
   has |-> st.heap[ref.v].hasCbs,
   ret |-> st.heap[ref.v].cbs]

\* --------------------------------------------- the reference registry
\* The list the documentation describes, kept beside the heap: register
\* appends {cb, phase}, unregister(cb) drops every entry of cb, unregister()
\* empties the list.
RefOnSet(rl, o, callback, phase) ==
  IF ~IsFunction(callback) THEN rl
  ELSE [rl EXCEPT ![o] = [has |-> TRUE,
                          list |-> Append(@.list,
                                          [cb |-> callback,
                                           phase |-> IF phase = NoArg THEN "after" ELSE phase])]]

RefOffSet(rl, o, callback) ==
  IF callback = NoArg THEN [rl EXCEPT ![o] = [has |-> TRUE, list |-> <<>>]]
  ELSE IF ~IsFunction(callback) \/ ~rl[o].has THEN rl
  ELSE LET other(e) == e.cb # callback
       IN [rl EXCEPT ![o].list = SelectSeq(@, other)]

\* a registry attached by observed is an empty list
RefAttach(rl, h) ==
  [o \in Objs |-> IF h[o].hasCbs /\ ~rl[o].has THEN [has |-> TRUE, list |-> <<>>] ELSE rl[o]]

\* --------------------------------------------------- calling a callback
\* what the body of a callback does besides returning: cbAdd and cbOff
\* register and unregister on the receiver while the write is dispatched,
\* cbThrow throws
callbackBody(st, w, idx, cb, prop, o) ==
  CASE cb = "cbAdd" ->
         [onSet(Log(st, Ev("regchange", w, o, prop, cb, idx, Undef, Undef, Undef)),
                Prox(o), "cbSame", "after")
          EXCEPT !.ref = RefOnSet(@, o, "cbSame", "after")]
    [] cb = "cbOff" ->
         [offSet(Log(st, Ev("regchange", w, o, prop, cb, idx, Undef, Undef, Undef)),
                 Prox(o), NoArg)
          EXCEPT !.ref = RefOffSet(@, o, NoArg)]
    [] cb = "cbThrow" -> Throw(st, CallbackError)
    [] OTHER -> st

\* cb(prop, value, valueBefore, receiver) for a global hook or a registration
\* of node o, running as part of write w
Call(st, w, kind, idx, cb, prop, value, valueBefore, o) ==
  [st |-> callbackBody(
            Log(st, Ev(kind, w, o, prop, cb, idx, value, valueBefore, CbReturn(cb, value))),
            w, idx, cb, prop, o),
   ret |-> CbReturn(cb, value)]

\* ------------------------------------------------------ observed, set trap
RECURSIVE observed(_, _, _, _)
RECURSIVE mayObserve(_, _, _, _)
RECURSIVE setTrap(_, _, _, _, _)
RECURSIVE keyLoop(_, _, _, _, _, _)
RECURSIVE beforeLoop(_, _, _, _, _, _, _)
RECURSIVE afterLoop(_, _, _, _, _, _, _)

\* Reflect.set(target, prop, value, receiver), and a plain assignment
\* object[prop] = value on an object that is no Proxy: the data property of
\* the target is defined or overwritten; a new key goes last in key order.
reflectSet(st, o, prop, value) ==
  [st EXCEPT !.heap[o].fields[prop] = value,
             !.heap[o].keys = IF \E i \in 1..Len(@) : @[i] = prop THEN @ ELSE Append(@, prop)]

\* an assignment that runs the set trap on a plain object as well
assignAlwaysTraps(st, ref, prop, value, d) == setTrap(st, ref.v, prop, value, d)

\* object[prop] = value: the set trap when object is a Proxy
assign(st, ref, prop, value, d) ==
  IF ref.t = "prox" THEN setTrap(st, ref.v, prop, value, d)
  ELSE reflectSet(st, ref.v, prop, value)

\* object[keys[i]] = r, r the result of mayObserve(object[keys[i]], options),
\* and on to the next key
keyAssign(r, ref, options, keys, i, d) ==
  IF r.st.err # NoErr THEN r.st
  ELSE keyLoop(assign(r.st, ref, keys[i], r.ret, d), ref, options, keys, i + 1, d)

\* mayObserve(object[keys[i]], options), the property read already made
mayObserveRead(r, options, d) == mayObserve(r.st, r.ret, options, d)

\* for (i...) object[keys[i]] = mayObserve(object[keys[i]], options)
keyLoop(st, ref, options, keys, i, d) ==
  IF st.err # NoErr \/ i > Len(keys) THEN st
  ELSE keyAssign(mayObserveRead(readProp(st, ref, keys[i]), options, d),
                 ref, options, keys, i, d)

\* mayObserve that wraps with the default options instead of the caller's
mayObserveDropsHooks(st, value, options, d) ==
  IF IsComposite(value)
  THEN observed(st, value, [defaultOptions EXCEPT !.deep = "false"], d + 1)
  ELSE [st |-> st, ret |-> value]

mayObserve(st, value, options, d) ==
  IF IsComposite(value)
  THEN observed(st, value, [options EXCEPT !.deep = "false"], d + 1)
  ELSE [st |-> st, ret |-> value]

\* if (isObserved(object)) return object; else new Proxy, mark, return proxy
wrapUnlessObserved(r, ref, options) ==
  IF r.ret THEN [st |-> r.st, ret |-> ref]
  ELSE [st |-> [r.st EXCEPT !.heap[ref.v].opts = options,
                            !.heap[ref.v].observed = TRUE],
        ret |-> Prox(ref.v)]

\* observed once the key loop has run
observedAfterKeys(st, ref, options) ==
  IF st.err # NoErr THEN [st |-> st, ret |-> Undef]
  ELSE wrapUnlessObserved(isObserved(st, ref), ref, options)

\* observed once the options are merged and the registry is there
observedKeys(st, ref, options, d) ==
  observedAfterKeys(keyLoop(st, ref, options, st.heap[ref.v].keys, 1, d), ref, options)

observed(st, ref, options, d) ==
  IF d > MaxDepth THEN [st |-> Throw(st, "RangeError"), ret |-> Undef]
  ELSE observedKeys(initCallbackArray(st, ref), ref, MergeOptions(options), d)

\* beforeLoop with the assignment dropped: cb(...) instead of value = cb(...)
beforeLoopDropsReturn(st, w, i, prop, value, valueBefore, o) ==
  IF st.err # NoErr \/ i > Len(st.frame.observers) THEN [st |-> st, ret |-> value]
  ELSE IF st.frame.observers[i].phase = "before"
  THEN beforeLoop(Call(st, w, "before", i, st.frame.observers[i].cb, prop, value,
                       valueBefore, o).st,
                  w, i + 1, prop, value, valueBefore, o)
  ELSE beforeLoop(st, w, i + 1, prop, value, valueBefore, o)

\* value = callbackRegistration.cb(...), and on to the next registration
beforeNext(r, w, i, prop, valueBefore, o) ==
  beforeLoop(r.st, w, i + 1, prop, r.ret, valueBefore, o)

\* inform all 'before' registered callbacks: each return value replaces value
beforeLoop(st, w, i, prop, value, valueBefore, o) ==
  IF st.err # NoErr \/ i > Len(st.frame.observers) THEN [st |-> st, ret |-> value]
  ELSE IF st.frame.observers[i].phase = "before"
  THEN beforeNext(Call(st, w, "before", i, st.frame.observers[i].cb, prop, value,
                       valueBefore, o),
                  w, i, prop, valueBefore, o)
  ELSE beforeLoop(st, w, i + 1, prop, value, valueBefore, o)

\* a returned value stored on the target
storeReturn(r, o, prop) == [r.st EXCEPT !.heap[o].fields[prop] = r.ret]

\* afterLoop written like beforeLoop: a returned value is stored as well
afterLoopStores(st, w, i, prop, value, valueBefore, o) ==
  IF st.err # NoErr \/ i > Len(st.frame.observers) THEN st
  ELSE IF st.frame.observers[i].phase = "after"
  THEN afterLoop(storeReturn(Call(st, w, "after", i, st.frame.observers[i].cb, prop, value,
                                  valueBefore, o),
                             o, prop),
                 w, i + 1, prop, value, valueBefore, o)
  ELSE afterLoop(st, w, i + 1, prop, value, valueBefore, o)

\* inform all 'after' registered callbacks: return values are dropped
afterLoop(st, w, i, prop, value, valueBefore, o) ==
  IF st.err # NoErr \/ i > Len(st.frame.observers) THEN st
  ELSE IF st.frame.observers[i].phase = "after"
  THEN afterLoop(Call(st, w, "after", i, st.frame.observers[i].cb, prop, value,
                      valueBefore, o).st,
                 w, i + 1, prop, value, valueBefore, o)
  ELSE afterLoop(st, w, i + 1, prop, value, valueBefore, o)

\* const observers = getObservers(object): the array the target's property
\* holds now, by reference
captureObservers(st, w, o) ==
  [st EXCEPT !.frame = [node |-> o, observers |-> st.heap[o].cbs, live |-> TRUE],
             !.caps = Append(@, [w |-> w, node |-> o, obs |-> st.heap[o].cbs])]

\* a hook result with undefined replaced by the value handed in
keepIfVoid(r, value) == [st |-> r.st, ret |-> IF r.ret = Undef THEN value ELSE r.ret]

\* globalBefore that keeps the value when the hook returns nothing
globalBeforeKeepsValue(st, w, options, prop, value, valueBefore, o) ==
  IF IsFunction(options.onBeforeSet)
  THEN keepIfVoid(Call(st, w, "onBeforeSet", 0, options.onBeforeSet, prop, value,
                       valueBefore, o),
                  value)
  ELSE [st |-> st, ret |-> value]

\* the value the global onBeforeSet hook leaves
globalBefore(st, w, options, prop, value, valueBefore, o) ==
  IF IsFunction(options.onBeforeSet)
  THEN Call(st, w, "onBeforeSet", 0, options.onBeforeSet, prop, value, valueBefore, o)
  ELSE [st |-> st, ret |-> value]

globalAfter(st, w, options, prop, value, valueBefore, o) ==
  IF st.err # NoErr THEN st
  ELSE IF IsFunction(options.onSet)
  THEN Call(st, w, "onSet", 0, options.onSet, prop, value, valueBefore, o).st
  ELSE st

\* Reflect.set(target, prop, value, receiver) of the set trap
commitValue(st, w, prop, value, valueBefore, o) ==
  Log(reflectSet(st, o, prop, value),
      Ev("commit", w, o, prop, NoArg, 0, value, valueBefore, Undef))

\* return true
endWrite(st, w, prop, value, valueBefore, o) ==
  IF st.err # NoErr THEN st
  ELSE [Log(st, Ev("end", w, o, prop, NoArg, 0, value, valueBefore, Undef))
        EXCEPT !.frame = DeadFrame]

\* commitAndAfter with the global onSet hook called before the registrations
commitAndAfterGlobalFirst(st, w, options, prop, value, valueBefore, o) ==
  endWrite(afterLoop(globalAfter(commitValue(st, w, prop, value, valueBefore, o),
                                 w, options, prop, value, valueBefore, o),
                     w, 1, prop, value, valueBefore, o),
           w, prop, value, valueBefore, o)

\* commitAndAfter that reads the old value again once the write is committed
commitAndAfterRereadsOld(st, w, options, prop, value, valueBefore, o) ==
  endWrite(globalAfter(afterLoop(commitValue(st, w, prop, value, valueBefore, o),
                                 w, 1, prop, value, value, o),
                       w, options, prop, value, value, o),
           w, prop, value, valueBefore, o)

\* the write once the final value is known: commit, 'after' callbacks, onSet
commitAndAfter(st, w, options, prop, value, valueBefore, o) ==
  endWrite(globalAfter(afterLoop(commitValue(st, w, prop, value, valueBefore, o),
                                 w, 1, prop, value, valueBefore, o),
                       w, options, prop, value, valueBefore, o),
           w, prop, value, valueBefore, o)

\* trapCommit that stores the value although a 'before' callback threw
trapCommitDespiteThrow(r, w, options, prop, valueBefore, o) ==
  IF r.st.err # NoErr THEN reflectSet(r.st, o, prop, r.ret)
  ELSE commitAndAfter(r.st, w, options, prop, r.ret, valueBefore, o)

\* the set trap from the commit on, r the result of the 'before' loop
trapCommit(r, w, options, prop, valueBefore, o) ==
  IF r.st.err # NoErr THEN r.st
  ELSE commitAndAfter(r.st, w, options, prop, r.ret, valueBefore, o)

\* the set trap from getObservers on, r the result of the global hook
trapRegistrations(r, w, options, prop, valueBefore, o) ==
  IF r.st.err # NoErr THEN r.st
  ELSE trapCommit(beforeLoop(captureObservers(r.st, w, o), w, 1, prop, r.ret, valueBefore, o),
                  w, options, prop, valueBefore, o)

\* the set trap from the global hook on, r the result of mayObserve(value)
trapBefore(r, w, options, prop, valueBefore, o) ==
  IF r.st.err # NoErr THEN r.st
  ELSE trapRegistrations(globalBefore(r.st, w, options, prop, r.ret, valueBefore, o),
                         w, options, prop, valueBefore, o)

\* entering the set trap: const valueBefore = target[prop]
beginWrite(st, o, prop, value) ==
  Log([st EXCEPT !.wid = @ + 1],
      Ev("begin", st.wid + 1, o, prop, NoArg, 0, value, st.heap[o].fields[prop], Undef))

\* a set trap that returns at once when the key holds the value already
setTrapSkipsEqual(st, o, prop, value, d) ==
  IF value = st.heap[o].fields[prop] THEN st
  ELSE trapBefore(mayObserve(beginWrite(st, o, prop, value), value, st.heap[o].opts, d),
                  st.wid + 1, st.heap[o].opts, prop, st.heap[o].fields[prop], o)

\* Proxy set trap of the wrapper of target o (receiver is that wrapper)
setTrap(st, o, prop, value, d) ==
  trapBefore(mayObserve(beginWrite(st, o, prop, value), value, st.heap[o].opts, d),
             st.wid + 1, st.heap[o].opts, prop, st.heap[o].fields[prop], o)

\* ------------------------------------------------------------ the state
VARIABLES heap, refl, log, caps, op, nops

vars == <<heap, refl, log, caps, op, nops>>

Options(deep, b, a, g) == [deep |-> deep, onBeforeSet |-> b, onSet |-> a, onGet |-> g]

NoOptions == Options("unset", NoArg, NoArg, NoArg)

NoOp ==
  [name |-> "none", ref |-> Undef, key |-> "", val |-> Undef, cb |-> NoArg,
   phase |-> NoArg, opts |-> NoOptions, ret |-> Undef, has |-> FALSE, obs |-> <<>>,
   err |-> NoErr]

Children(h, o) == {h[o].fields[k].v : k \in {x \in Keys : IsComposite(h[o].fields[x])}}

RECURSIVE Reach(_, _, _)
Reach(h, S, n) ==
  IF n = 0 THEN S ELSE Reach(h, S \cup UNION {Children(h, o) : o \in S}, n - 1)

Below(h, o) == Reach(h, Children(h, o), NObj)

Acyclic(h) == \A o \in Objs : o \notin Below(h, o)

InBounds(st) ==
  /\ st.err # "RangeError"
  /\ Acyclic(st.heap)
  /\ \A o \in Objs : Len(st.heap[o].cbs) <= MaxReg
  /\ \A o \in Objs, k \in Keys :
       st.heap[o].fields[k].t = "num" => st.heap[o].fields[k].v <= MaxNum

\* one call of the public API ran to its end (or to its throw)
Done(st, o) ==
  /\ nops < MaxOps
  /\ InBounds(st)
  /\ heap' = st.heap
  /\ refl' = RefAttach(st.ref, st.heap)
  /\ log' = st.log
  /\ caps' = st.caps
  /\ op' = [o EXCEPT !.err = st.err]
  /\ nops' = nops + 1

\* the references a caller can hold: every plain object, every wrapper
Refs == {Raw(o) : o \in Objs} \cup {Prox(o) : o \in {x \in Objs : heap[x].observed}}

Wrappers == {Prox(o) : o \in {x \in Objs : heap[x].observed}}

\* ------------------------------------------------------------- actions
\* a call that returns a value
DoneWith(r, o) == Done(r.st, [o EXCEPT !.ret = r.ret])

\* a call that returns a registry or a flag
DoneHas(r, o) == Done(r.st, [o EXCEPT !.has = r.has, !.obs = r.ret])

ObservedAct(ref, options) ==
  DoneWith(observed(Start(heap, refl), ref, options, 0),
           [NoOp EXCEPT !.name = "observed", !.ref = ref, !.opts = options])

MayObserveAct(value, options) ==
  DoneWith(mayObserve(Start(heap, refl), value, options, 0),
           [NoOp EXCEPT !.name = "mayObserve", !.val = value, !.opts = options])

\* wrapper[prop] = value
WriteAct(o, prop, value) ==
  Done(setTrap(Start(heap, refl), o, prop, value, 0),
       [NoOp EXCEPT !.name = "write", !.ref = Prox(o), !.key = prop, !.val = value])

\* wrapper[prop]
ReadAct(o, prop) ==
  DoneWith(readProp(Start(heap, refl), Prox(o), prop),
           [NoOp EXCEPT !.name = "read", !.ref = Prox(o), !.key = prop])

OnSetAct(ref, callback, phase) ==
  Done([onSet(Start(heap, refl), ref, callback, phase)
        EXCEPT !.ref = RefOnSet(@, ref.v, callback, phase)],
       [NoOp EXCEPT !.name = "onSet", !.ref = ref, !.cb = callback, !.phase = phase])

\* the record of the call keeps the registry the node had before it
OffSetAct(ref, callback) ==
  Done([offSet(Start(heap, refl), ref, callback)
        EXCEPT !.ref = RefOffSet(@, ref.v, callback)],
       [NoOp EXCEPT !.name = "offSet", !.ref = ref, !.cb = callback,
                    !.has = heap[ref.v].hasCbs, !.obs = heap[ref.v].cbs])

GetObserversAct(ref) ==
  DoneHas(getObservers(Start(heap, refl), ref),
          [NoOp EXCEPT !.name = "getObservers", !.ref = ref])

IsObservedAct(ref) ==
  DoneHas([st |-> isObserved(Start(heap, refl), ref).st,
           has |-> heap[ref.v].observed,
           ret |-> <<>>],
          [NoOp EXCEPT !.name = "isObserved", !.ref = ref])

\* ------------------------------------------------------- initial heaps
\* { a: { a: 1 }, b: 1 } and spare empty objects
TreeHeap ==
  [o \in Objs |->
     CASE o = 1 -> PlainObject(<<"a", "b">>, [NoFields EXCEPT !["a"] = Raw(2), !["b"] = Num(1)])
       [] o = 2 -> PlainObject(<<"a">>, [NoFields EXCEPT !["a"] = Num(1)])
       [] OTHER -> PlainObject(<<>>, NoFields)]

\* { a: { a: { a: 1 } } }: a chain through every object
ChainHeap ==
  [o \in Objs |->
     IF o < NObj THEN PlainObject(<<"a">>, [NoFields EXCEPT !["a"] = Raw(o + 1)])
     ELSE PlainObject(<<"a">>, [NoFields EXCEPT !["a"] = Num(1)])]

InitWith(h) ==
  /\ heap = h
  /\ refl = [o \in Objs |-> [has |-> FALSE, list |-> <<>>]]
  /\ log = <<>>
  /\ caps = <<>>
  /\ op = NoOp
  /\ nops = 0

\* ------------------------------------- Spec: writes and their dispatch
DispatchOptions ==
  {NoOptions,
   Options("unset", "cbDbl", "cbSame", "cbSame"),
   Options("unset", "cbVoid", "cbInc", NoArg)}

Registrations ==
  {<<"cbDbl", "before">>, <<"cbInc", "before">>, <<"cbVoid", "before">>,
   <<"cbInc", "after">>, <<"cbAdd", "after">>, <<"cbOff", "before">>}

WriteValues == {Num(1), Num(2), Raw(HookObj)} \cup Wrappers

Init == InitWith(TreeHeap)

Next ==
  \/ \E options \in DispatchOptions : ~heap[1].observed /\ ObservedAct(Raw(1), options)
  \/ \E ref \in Wrappers, reg \in Registrations : OnSetAct(ref, reg[1], reg[2])
  \/ \E ref \in Wrappers, prop \in Keys, value \in WriteValues : WriteAct(ref.v, prop, value)

Spec == Init /\ [][Next]_vars

\* --------------------------- SpecWrap: wrapping, re-wrapping and depth
WrapOptions ==
  {NoOptions,
   Options("false", NoArg, NoArg, NoArg),
   Options("unset", "cbDbl", "cbSame", NoArg),
   Options("unset", "cbObj", NoArg, NoArg)}

MayObserveOptions == {NoOptions, Options("false", NoArg, NoArg, NoArg)}

WrapValues == {Num(2), Raw(2), Raw(NObj)}

InitWrap == InitWith(TreeHeap) \/ InitWith(ChainHeap)

\* the caller wraps the root, and wraps it again through either reference
RootRefs == {Raw(1)} \cup {Prox(o) : o \in {x \in {1} : heap[x].observed}}

NextWrap ==
  \/ \E ref \in RootRefs, options \in WrapOptions : ObservedAct(ref, options)
  \/ \E value \in {Num(2), Null, Raw(NObj)} \cup RootRefs, options \in MayObserveOptions :
       MayObserveAct(value, options)
  \/ \E ref \in Wrappers, prop \in Keys, value \in WrapValues :
       WriteAct(ref.v, prop, value)
  \/ \E ref \in Refs : IsObservedAct(ref)

SpecWrap == InitWrap /\ [][NextWrap]_vars

\* ------------------------------- SpecReg: the registry of a node alone
RegCallbacks == {"cbSame", "cbDbl"}

InitReg == InitWith(TreeHeap)

\* the root and its child, each through the plain object or its wrapper
RegRefs == {ref \in Refs : ref.v \in {1, 2}}

NextReg ==
  \/ ~heap[1].observed /\ ObservedAct(Raw(1), NoOptions)
  \/ \E ref \in RegRefs, callback \in RegCallbacks \cup {NotAFunction},
        phase \in {NoArg, "before", "after"} : OnSetAct(ref, callback, phase)
  \/ \E ref \in RegRefs, callback \in RegCallbacks \cup {NotAFunction, NoArg} :
       OffSetAct(ref, callback)
  \/ \E ref \in RegRefs : GetObserversAct(ref)

SpecReg == InitReg /\ [][NextReg]_vars

\* ------------- SpecHooks: global hooks, unregistering, throwing callbacks
HookOptions ==
  {Options("unset", "cbDbl", "cbSame", NoArg),
   Options("unset", "cbThrow", NoArg, NoArg),
   Options("unset", NoArg, "cbThrow", NoArg)}

HookRegistrations ==
  {<<"cbInc", "before">>, <<"cbThrow", "before">>, <<"cbThrow", "after">>,
   <<"cbSame", "after">>}

HookValues == {Num(1), Raw(HookObj)} \cup Wrappers

InitHooks == InitWith(TreeHeap)

NextHooks ==
  \/ \E options \in HookOptions : ~heap[1].observed /\ ObservedAct(Raw(1), options)
  \/ \E ref \in Wrappers, reg \in HookRegistrations : OnSetAct(ref, reg[1], reg[2])
  \/ \E ref \in Wrappers, callback \in {NoArg, "cbInc"} : OffSetAct(ref, callback)
  \/ \E ref \in Wrappers, prop \in Keys, value \in HookValues :
       WriteAct(ref.v, prop, value)

SpecHooks == InitHooks /\ [][NextHooks]_vars

\* ------------------------------------------- SpecGet: the global read hook
GetOptions ==
  {NoOptions,
   Options("unset", NoArg, NoArg, "cbDbl"),
   Options("unset", "cbInc", NoArg, "cbVoid")}

GetValues == {Num(2), Raw(HookObj)} \cup Wrappers

InitGet == InitWith(TreeHeap)

NextGet ==
  \/ \E options \in GetOptions : ~heap[1].observed /\ ObservedAct(Raw(1), options)
  \/ \E ref \in Wrappers, prop \in Keys : ReadAct(ref.v, prop)
  \/ \E ref \in RegRefs, phase \in {NoArg, "before"} : OnSetAct(ref, "cbSame", phase)
  \/ \E ref \in Wrappers, prop \in Keys, value \in GetValues : WriteAct(ref.v, prop, value)

SpecGet == InitGet /\ [][NextGet]_vars

\* ------- SpecShared: one registry for a plain object and for its wrapper
SharedOptions == {NoOptions, Options("unset", "cbDbl", "cbSame", "cbSame")}

SharedRegistrations == {<<"cbDbl", "before">>, <<"cbSame", "after">>}

InitShared == InitWith(TreeHeap)

NextShared ==
  \/ \E options \in SharedOptions : ~heap[1].observed /\ ObservedAct(Raw(1), options)
  \/ \E ref \in RegRefs, reg \in SharedRegistrations : OnSetAct(ref, reg[1], reg[2])
  \/ \E ref \in RegRefs, callback \in {NoArg, "cbDbl"} : OffSetAct(ref, callback)
  \/ \E ref \in Wrappers, prop \in Keys, value \in {Num(1), Num(2)} :
       WriteAct(ref.v, prop, value)

SpecShared == InitShared /\ [][NextShared]_vars

\* ------------------------------------------ reading the log of one call
CallbackKinds == {"onBeforeSet", "before", "after", "onSet"}

\* the writes (set trap runs) of the last call, outermost and nested
WriteIds == {log[i].w : i \in {j \in DOMAIN log : log[j].kind = "begin"}}

Pos(kind, w) == CHOOSE i \in DOMAIN log : log[i].kind = kind /\ log[i].w = w

Completed(w) == \E i \in DOMAIN log : log[i].kind = "end" /\ log[i].w = w

BeginOf(w) == log[Pos("begin", w)]

CommitOf(w) == log[Pos("commit", w)]

CapOf(w) == caps[CHOOSE i \in DOMAIN caps : caps[i].w = w]

\* what write w ran, in the order it ran it: callbacks and the commit
Steps(w) ==
  LET mine(e) == e.w = w /\ e.kind \in CallbackKinds \cup {"commit"}
  IN SelectSeq(log, mine)

BeforeSteps(w) ==
  LET mine(e) == e.w = w /\ e.kind \in {"onBeforeSet", "before"}
  IN SelectSeq(log, mine)

AfterSteps(w) ==
  LET mine(e) == e.w = w /\ e.kind \in {"after", "onSet"}
  IN SelectSeq(log, mine)

Shape(steps) == [i \in 1..Len(steps) |-> <<steps[i].kind, steps[i].idx, steps[i].cb>>]

\* the registrations of one phase, each with its place in the registry
PhaseOf(obs, phase) ==
  LET tagged == [i \in 1..Len(obs) |-> <<obs[i].phase, i, obs[i].cb>>]
      mine(t) == t[1] = phase
  IN SelectSeq(tagged, mine)

\* the order the documentation fixes for a write on a node with these
\* options and this registry
Expected(options, obs) ==
  (IF IsFunction(options.onBeforeSet)
   THEN << <<"onBeforeSet", 0, options.onBeforeSet>> >> ELSE <<>>)
  \o PhaseOf(obs, "before")
  \o << <<"commit", 0, NoArg>> >>
  \o PhaseOf(obs, "after")
  \o (IF IsFunction(options.onSet) THEN << <<"onSet", 0, options.onSet>> >> ELSE <<>>)

\* a callback registered or unregistered on the node while write w ran
RegistryChangedDuring(w) ==
  \E i \in DOMAIN log :
    /\ log[i].kind = "regchange"
    /\ log[i].node = BeginOf(w).node
    /\ Pos("begin", w) < i
    /\ i < Pos("end", w)

Rank(kind) ==
  CASE kind = "onBeforeSet" -> 1
    [] kind = "before" -> 2
    [] kind = "commit" -> 3
    [] kind = "after" -> 4
    [] OTHER -> 5

\* global hook, 'before' registrations by place, commit, 'after'
\* registrations by place, global hook
InOrder(steps) ==
  \A i, j \in 1..Len(steps) :
    i < j => \/ Rank(steps[i].kind) < Rank(steps[j].kind)
             \/ /\ steps[i].kind = steps[j].kind
                /\ steps[i].kind \in {"before", "after"}
                /\ steps[i].idx < steps[j].idx

\* w is the write of the call that committed last to its node and key
LastWriteTo(w) ==
  \A x \in WriteIds :
    (BeginOf(x).node = BeginOf(w).node /\ BeginOf(x).key = BeginOf(w).key)
      => Pos("commit", x) <= Pos("commit", w)

SameObject(x, y) == x = y \/ (IsComposite(x) /\ IsComposite(y) /\ x.v = y.v)

\* ------------------------------------------------------------ claims

\* C1: every write through a wrapper runs onBeforeSet (if configured), then
\* the node's 'before' registrations in insertion order, then the commit,
\* then its 'after' registrations in insertion order, then onSet (if
\* configured); unless a callback changed the registry during the write,
\* these are the registrations of the node, each run exactly once.
C1_DispatchOrder ==
  \A w \in WriteIds :
    /\ Completed(w)
    /\ InOrder(Steps(w))
    /\ LET n == BeginOf(w).node
           gone(e) == e.kind \in {"onBeforeSet", "commit", "onSet"}
       IN /\ Shape(SelectSeq(Steps(w), gone)) = Expected(heap[n].opts, <<>>)
          /\ ~RegistryChangedDuring(w) =>
               /\ Shape(Steps(w)) = Expected(heap[n].opts, CapOf(w).obs)
               /\ LastWriteTo(w) /\ (\A x \in WriteIds : ~RegistryChangedDuring(x))
                    => CapOf(w).obs = heap[n].cbs

\* a write on a node with both global hooks, a 'before' and an 'after'
\* registration
C1_Witness ==
  /\ op.name = "write"
  /\ \E w \in WriteIds :
       /\ Len(Steps(w)) = 5
       /\ ~RegistryChangedDuring(w)
       /\ PhaseOf(heap[BeginOf(w).node].cbs, "before") # <<>>
       /\ PhaseOf(heap[BeginOf(w).node].cbs, "after") # <<>>

\* C2: the committed value is the incoming value folded through onBeforeSet
\* and then through the 'before' registrations in insertion order, each one
\* handed the return value of the one before it; that value is what the key
\* holds after the write and what every 'after' registration and onSet are
\* handed as the new value; every write commits.
C2_BeforePipeline ==
  \A w \in WriteIds :
    LET bs == BeforeSteps(w)
        final == IF bs = <<>> THEN BeginOf(w).val ELSE bs[Len(bs)].ret
    IN /\ \E i \in DOMAIN log : log[i].kind = "commit" /\ log[i].w = w
       /\ \A i \in 1..Len(bs) :
            IF i = 1 THEN SameObject(bs[i].val, BeginOf(w).val)
            ELSE bs[i].val = bs[i - 1].ret
       /\ IF bs = <<>> THEN SameObject(CommitOf(w).val, final) ELSE CommitOf(w).val = final
       /\ \A i \in 1..Len(AfterSteps(w)) : AfterSteps(w)[i].val = CommitOf(w).val
       /\ LastWriteTo(w) =>
            SameObject(heap[BeginOf(w).node].fields[BeginOf(w).key], final)

\* a write whose value two before-phase callbacks changed in turn, with an
\* 'after' phase callback behind them
C2_Witness ==
  /\ op.name = "write"
  /\ \E w \in WriteIds :
       LET bs == BeforeSteps(w)
       IN /\ Len(bs) >= 2
          /\ bs[1].ret # bs[1].val
          /\ bs[2].ret # bs[2].val
          /\ bs[2].cb # bs[1].cb
          /\ AfterSteps(w) # <<>>
          /\ heap[BeginOf(w).node].fields[BeginOf(w).key] = bs[Len(bs)].ret

\* C3: when the last before-phase callback of a write (onBeforeSet or a
\* 'before' registration) returns nothing, the key is stored as undefined,
\* and the 'after' registrations and onSet are handed undefined as the new
\* value and the original old value.
C3_VoidBeforeStoresUndefined ==
  \A w \in WriteIds :
    LET bs == BeforeSteps(w)
    IN (bs # <<>> /\ bs[Len(bs)].cb = "cbVoid") =>
         /\ CommitOf(w).val = Undef
         /\ LastWriteTo(w) => heap[BeginOf(w).node].fields[BeginOf(w).key] = Undef
         /\ \A i \in 1..Len(AfterSteps(w)) :
              /\ AfterSteps(w)[i].val = Undef
              /\ AfterSteps(w)[i].old = BeginOf(w).old

\* a number written over a number, the last before-phase callback returning
\* nothing, an 'after' phase callback told so
C3_Witness ==
  /\ op.name = "write"
  /\ op.val.t = "num"
  /\ \E w \in WriteIds :
       LET bs == BeforeSteps(w)
       IN /\ w = 1
          /\ bs # <<>>
          /\ bs[Len(bs)].cb = "cbVoid"
          /\ BeginOf(w).old.t = "num"
          /\ AfterSteps(w) # <<>>
          /\ heap[op.ref.v].fields[op.key] = Undef

\* C4: every callback of one write is handed the same old value, the value
\* the key held on the target when the write began (undefined for a new
\* key), whatever the before-phase callbacks made of the new value.
C4_OldValue ==
  [][op'.name = "write" =>
       /\ log'[1].kind = "begin"
       /\ log'[1].old = heap[op'.ref.v].fields[op'.key]
       /\ \A i \in DOMAIN log' :
            log'[i].kind \in CallbackKinds =>
              \E j \in DOMAIN log' : /\ log'[j].kind = "begin"
                                     /\ log'[j].w = log'[i].w
                                     /\ log'[j].old = log'[i].old]_vars

\* a write over a number whose before-phase callbacks changed the new value
\* and which ran an 'after' phase callback
C4_Witness ==
  /\ op.name = "write"
  /\ BeginOf(1).old.t = "num"
  /\ BeforeSteps(1) # <<>>
  /\ CommitOf(1).val # BeginOf(1).val
  /\ CommitOf(1).val # BeginOf(1).old
  /\ AfterSteps(1) # <<>>

\* C5: what the 'after' registrations and onSet return never reaches the
\* target: after the write the key holds the value that was committed
\* before they ran.
C5_AfterPhaseIsolation ==
  \A w \in WriteIds :
    (AfterSteps(w) # <<>> /\ LastWriteTo(w)) =>
      heap[BeginOf(w).node].fields[BeginOf(w).key] = CommitOf(w).val

\* an 'after' phase callback returned something else than the value stored
C5_Witness ==
  /\ op.name = "write"
  /\ \E i \in 1..Len(AfterSteps(1)) :
       /\ AfterSteps(1)[i].ret # AfterSteps(1)[i].val
       /\ AfterSteps(1)[i].ret # Undef
  /\ heap[op.ref.v].fields[op.key] = CommitOf(1).val

\* C6: observed on a structure that is already wrapped, called with the
\* wrapper or with the structure itself, returns that one wrapper.
C6_IdempotentWrap ==
  (op.name = "observed" /\ op.err = NoErr) => op.ret = Prox(op.ref.v)

\* C7: observed on an already wrapped node returns the node and does nothing
\* else: no stored value, registry or option of any node changes and no
\* global hook or registration is called.
C7_RewrapHasNoEffect ==
  [][(op'.name = "observed" /\ op'.ref.t = "prox") =>
       /\ op'.ret = op'.ref
       /\ \A o \in Objs : /\ heap'[o].fields = heap[o].fields
                          /\ heap'[o].cbs = heap[o].cbs
                          /\ heap'[o].opts = heap[o].opts
       /\ \A i \in DOMAIN log' : log'[i].kind \notin CallbackKinds]_vars

\* C8: below a root wrapped with deep observation, every composite value
\* stored under a key of a wrapped node is a wrapper.
C8_DeepCoverage ==
  \A r \in Objs :
    (heap[r].observed /\ heap[r].opts.deep = "true") =>
      \A n \in {r} \cup Below(heap, r) :
        heap[n].observed =>
          \A k \in Keys : IsComposite(heap[n].fields[k]) => heap[n].fields[k].t = "prox"

\* C9: with deep: false, observed leaves the composite values the structure
\* holds as they are, mayObserve returns the value it was given, and a
\* composite value written later to such a node is stored as it was given.
C9_DeepFalseKeepsValues ==
  [][/\ (op'.name = "observed" /\ op'.opts.deep = "false" /\ ~heap[op'.ref.v].observed) =>
          \A k \in Keys : heap'[op'.ref.v].fields[k] = heap[op'.ref.v].fields[k]
     /\ (op'.name = "mayObserve" /\ op'.opts.deep = "false") => op'.ret = op'.val
     /\ (/\ op'.name = "write"
         /\ heap[op'.ref.v].opts.deep = "false"
         /\ op'.val.t = "raw"
         /\ \A i \in DOMAIN log' : log'[i].kind \notin {"onBeforeSet", "before"}) =>
          heap'[op'.ref.v].fields[op'.key] = op'.val]_vars

\* C10: after any sequence of onSet and offSet calls the registry of every
\* node is the reference list (append without deduplication; remove every
\* entry of a callback whatever its phase, keeping the order of the others;
\* empty the list), getObservers returns it, and a node that never had a
\* registry yields undefined.
C10_RegistryMatchesReference ==
  /\ \A o \in Objs : /\ heap[o].hasCbs = refl[o].has
                     /\ heap[o].cbs = refl[o].list
  /\ op.name = "getObservers" =>
       /\ op.has = refl[op.ref.v].has
       /\ op.has => op.obs = refl[op.ref.v].list

\* offSet(node, cb) took cb out of a registry that held it twice, in both
\* phases, or out of a registry that held another callback behind it
C10_Witness ==
  \/ /\ op.name = "offSet"
     /\ op.err = NoErr
     /\ IsFunction(op.cb)
     /\ Len(op.obs) = 2
     /\ op.obs[1].cb = op.cb /\ op.obs[2].cb = op.cb
     /\ op.obs[1].phase # op.obs[2].phase
     /\ heap[op.ref.v].cbs = <<>>
  \/ /\ op.name = "offSet"
     /\ op.err = NoErr
     /\ IsFunction(op.cb)
     /\ Len(op.obs) = 2
     /\ op.obs[1].cb = op.cb /\ op.obs[2].cb # op.cb
     /\ heap[op.ref.v].cbs = <<op.obs[2]>>

\* C11: offSet(node) without a callback leaves the node with an empty
\* registry, a write to a node whose registry is empty calls no registration
\* of that node, no offSet call changes the options of any node, every
\* wrapped node below the root has the root's global hooks, and every write
\* of a call that returns calls the global hooks of its node.
C11_OffSetClearsOnlyRegistry ==
  /\ [](/\ (op.name = "offSet" /\ op.cb = NoArg) =>
            (heap[op.ref.v].hasCbs /\ heap[op.ref.v].cbs = <<>>)
        /\ \A n \in Below(heap, 1) :
             (heap[1].observed /\ heap[n].observed) =>
               /\ heap[n].opts.onBeforeSet = heap[1].opts.onBeforeSet
               /\ heap[n].opts.onSet = heap[1].opts.onSet
        /\ (op.name = "write" /\ op.err = NoErr) =>
             \A w \in WriteIds :
               LET options == heap[BeginOf(w).node].opts
                   called(kind, cb) ==
                     \E i \in DOMAIN log :
                       log[i].kind = kind /\ log[i].w = w /\ log[i].cb = cb
               IN /\ IsFunction(options.onBeforeSet) =>
                      called("onBeforeSet", options.onBeforeSet)
                  /\ IsFunction(options.onSet) => called("onSet", options.onSet))
  /\ [][/\ op'.name = "offSet" =>
            \A o \in Objs : /\ heap'[o].opts = heap[o].opts
                             /\ heap'[o].observed = heap[o].observed
                             /\ heap'[o].fields = heap[o].fields
        /\ (op'.name = "write" /\ heap[op'.ref.v].cbs = <<>>) =>
             \A i \in DOMAIN log' :
               log'[i].node = op'.ref.v => log'[i].kind \notin {"before", "after"}]_vars

\* offSet(node) emptied a registry of two entries on a node below a root
\* that was wrapped with global hooks
C11_Witness ==
  /\ op.name = "offSet"
  /\ op.cb = NoArg
  /\ op.err = NoErr
  /\ Len(op.obs) = 2
  /\ op.obs[1].phase = "before"
  /\ op.ref.v \in Below(heap, 1)
  /\ IsFunction(heap[op.ref.v].opts.onBeforeSet)
  /\ heap[op.ref.v].cbs = <<>>

\* C12: offSet(node, cb) with a function cb that the registry of node does
\* not hold fails with 'callback is not registered' and leaves the registry
\* as it was, whether the node has a registry or not.
C12_UnregisteredOffSetFails ==
  (/\ op.name = "offSet"
   /\ IsFunction(op.cb)
   /\ \A i \in 1..Len(op.obs) : op.obs[i].cb # op.cb) =>
    /\ op.err = "callback is not registered"
    /\ heap[op.ref.v].cbs = op.obs

\* C13: onSet with a callback that is no function, and offSet with a callback
\* that is given but is no function, fail with 'callback must be a function',
\* call nothing and leave every object as it was.
C13_NotAFunctionFails ==
  [][(op'.name \in {"onSet", "offSet"} /\ op'.cb = NotAFunction) =>
       /\ op'.err = "callback must be a function"
       /\ heap' = heap
       /\ log' = <<>>]_vars

\* onSet with something that is no function failed on a node whose registry
\* holds two registrations, and still holds them
C13_Witness ==
  /\ op.name = "onSet"
  /\ op.cb = NotAFunction
  /\ op.err = "callback must be a function"
  /\ Len(heap[op.ref.v].cbs) = 2
  /\ heap[op.ref.v].cbs[1] # heap[op.ref.v].cbs[2]

\* the callback calls of the last API call, by place in the log
CallbackCalls == {i \in DOMAIN log : log[i].kind \in CallbackKinds}

\* C14: a callback that throws ends the write with its error: it is the last
\* thing the call did, so no later callback ran; when it threw in the before
\* phase (onBeforeSet or a 'before' registration) the write did not commit
\* and the key holds its old value; when it threw in the after phase (an
\* 'after' registration or onSet) the key holds the committed value; a write
\* that was waiting for the failed one to return did not commit.
C14_ThrowAborts ==
  /\ (\E i \in CallbackCalls : log[i].cb = "cbThrow") => op.err = CallbackError
  /\ (op.name = "write" /\ op.err = CallbackError) =>
       /\ CallbackCalls # {}
       /\ Len(log) \in CallbackCalls
       /\ \A i \in CallbackCalls : log[i].cb = "cbThrow" <=> i = Len(log)
       /\ ~Completed(1)
       /\ \A w \in WriteIds :
            ~Completed(w) =>
              LET thrown == log[Len(log)]
                  committed == \E i \in DOMAIN log : log[i].kind = "commit" /\ log[i].w = w
                  stored == heap[BeginOf(w).node].fields[BeginOf(w).key]
              IN IF thrown.w # w THEN ~committed
                 ELSE IF thrown.kind \in {"after", "onSet"}
                 THEN committed /\ stored = CommitOf(w).val
                 ELSE ~committed /\ stored = BeginOf(w).old

\* an 'after' registration threw behind a 'before' registration that had
\* changed the value: the key holds the new value, not the old one, and the
\* global onSet hook of the node was not called
C14_Witness ==
  /\ op.name = "write"
  /\ op.err = CallbackError
  /\ log[Len(log)].kind = "after"
  /\ log[Len(log)].w = 1
  /\ BeforeSteps(1) # <<>>
  /\ CommitOf(1).val # BeginOf(1).val
  /\ heap[op.ref.v].fields[op.key] = CommitOf(1).val
  /\ heap[op.ref.v].fields[op.key] # BeginOf(1).old
  /\ IsFunction(heap[op.ref.v].opts.onSet)

\* C15: the object handed to observed stays as it was: no observed call and
\* no write through a wrapper changes the value under any key of any plain
\* object.
C15_OriginalUntouched ==
  [][op'.name \in {"observed", "write"} =>
       \A o \in Objs : heap'[o].fields = heap[o].fields]_vars

\* C16: isObserved answers true for a wrapper and false for a plain object,
\* the object that was handed to observed included.
C16_IsObservedTellsWrappers ==
  op.name = "isObserved" => (op.has <=> op.ref.t = "prox")

\* C17: every wrapped node has the global hooks the root was wrapped with,
\* the nodes the root held when it was wrapped and the plain objects written
\* below it later alike, and every write to any of them calls those hooks.
C17_HooksSubtreeWide ==
  heap[1].observed =>
    /\ \A n \in Objs :
         heap[n].observed =>
           /\ heap[n].opts.onBeforeSet = heap[1].opts.onBeforeSet
           /\ heap[n].opts.onSet = heap[1].opts.onSet
    /\ \A w \in WriteIds :
         LET called(kind, cb) ==
               Cardinality({i \in DOMAIN log :
                              log[i].kind = kind /\ log[i].w = w /\ log[i].cb = cb}) = 1
         IN /\ IsFunction(heap[1].opts.onBeforeSet) =>
                called("onBeforeSet", heap[1].opts.onBeforeSet)
            /\ IsFunction(heap[1].opts.onSet) => called("onSet", heap[1].opts.onSet)

\* a write to a node two levels below the root, a plain object when it was
\* written there, called both global hooks of the root
C17_Witness ==
  /\ op.name = "write"
  /\ op.ref.v = HookObj
  /\ heap[2].fields["b"] = Prox(HookObj)
  /\ heap[1].fields["a"] = Prox(2)
  /\ IsFunction(heap[1].opts.onBeforeSet)
  /\ IsFunction(heap[1].opts.onSet)
  /\ \E i, j \in DOMAIN log :
       /\ log[i].kind = "onBeforeSet" /\ log[i].node = HookObj
       /\ log[j].kind = "onSet" /\ log[j].node = HookObj

\* C18: every write through a wrapper runs the set trap to its end, and a
\* write of the value the key holds already runs the same sequence as any
\* other write: the global hooks and every registration of the node in
\* order, the first of them handed a new value equal to the old value and
\* all of them the old value.
C18_EqualValueWrites ==
  (op.name = "write" /\ op.err = NoErr) =>
    /\ 1 \in WriteIds
    /\ Completed(1)
    /\ BeginOf(1).node = op.ref.v /\ BeginOf(1).key = op.key /\ BeginOf(1).val = op.val
    /\ BeginOf(1).val = BeginOf(1).old =>
         /\ \E i \in DOMAIN log : log[i].kind = "commit" /\ log[i].w = 1
         /\ SameObject(Steps(1)[1].val, Steps(1)[1].old)
         /\ \A i \in 1..Len(Steps(1)) : Steps(1)[i].old = op.val
         /\ ~RegistryChangedDuring(1) =>
              Shape(Steps(1)) = Expected(heap[op.ref.v].opts, CapOf(1).obs)

\* a number written over the same number ran both global hooks, a 'before'
\* and an 'after' registration
C18_Witness ==
  /\ op.name = "write"
  /\ op.val.t = "num"
  /\ BeginOf(1).old = op.val
  /\ Len(Steps(1)) = 5
  /\ Steps(1)[1].kind = "onBeforeSet"
  /\ Steps(1)[1].val = Steps(1)[1].old
  /\ Steps(1)[2].kind = "before"
  /\ Steps(1)[4].kind = "after"
  /\ Steps(1)[5].kind = "onSet"

\* the read hook calls of the last API call, by place in the log
ReadCalls == {i \in DOMAIN log : log[i].kind = "onGet"}

\* value is no wrapper and, if an object, holds no wrapper at any depth
HoldsNoWrapper(h, value) ==
  /\ value.t # "prox"
  /\ value.t = "raw" =>
       \A n \in {value.v} \cup Below(h, value.v), k \in Keys : h[n].fields[k].t # "prox"

\* a read through a wrapper returns the value of the target, changes nothing
\* and calls onGet, if the node has one, once with the key and that value
ReadCallsHookOnce ==
  op'.name = "read" =>
    LET o == op'.ref.v
        hook == heap[o].opts.onGet
    IN /\ op'.ret = heap[o].fields[op'.key]
       /\ op'.err = NoErr
       /\ heap' = heap
       /\ IF IsFunction(hook)
          THEN /\ Len(log') = 1
               /\ log'[1].kind = "onGet" /\ log'[1].cb = hook /\ log'[1].node = o
               /\ log'[1].key = op'.key /\ log'[1].val = heap[o].fields[op'.key]
          ELSE log' = <<>>

\* onSet on a wrapper reads the registry key three times through it, onSet
\* on a plain object reads through no wrapper
OnSetReadsThrice ==
  (op'.name = "onSet" /\ op'.err = NoErr) =>
    LET o == op'.ref.v
    IN /\ \A i \in ReadCalls' : log'[i].node = o /\ log'[i].key = "observedCallbacks"
       /\ Cardinality(ReadCalls') =
            IF op'.ref.t = "prox" /\ IsFunction(heap[o].opts.onGet) THEN 3 ELSE 0

C20_RegistryPrivate ==
  op.name = "write" =>
    \A i \in DOMAIN log :
      log[i].kind \in {"before", "after"} => log[i].node = op.ref.v

\* C21: observed keeps the registry a plain object has already, the registry
\* of a node is the list built from the onSet and offSet calls made on the
\* plain object and on its wrapper alike, and a write through the wrapper
\* calls exactly the registrations of that list.
C21_RegistryShared ==
  /\ [](/\ \A o \in Objs : heap[o].hasCbs = refl[o].has /\ heap[o].cbs = refl[o].list
        /\ (op.name = "write" /\ op.err = NoErr) =>
             Shape(Steps(1)) = Expected(heap[op.ref.v].opts, refl[op.ref.v].list))
  /\ [][op'.name = "observed" =>
          \A o \in Objs : heap[o].hasCbs => heap'[o].cbs = heap[o].cbs]_vars

\* observed returned the wrapper of a plain object that came with two
\* registrations, and the node still holds them
C21_Witness ==
  /\ op.name = "observed"
  /\ op.ref = Raw(1)
  /\ op.ret = Prox(1)
  /\ Len(heap[1].cbs) = 2
  /\ heap[1].cbs[1].phase = "before"
  /\ heap[1].cbs = refl[1].list

\* the registrations write w called, in the order it called them
RegistrationSteps(w) ==
  LET mine(e) == e.w = w /\ e.kind \in {"before", "after"}
  IN SelectSeq(log, mine)

\* C22: the registrations a write calls are those the registry of its node
\* held when the write began, 'before' ones first, each once, whatever the
\* callbacks register or unregister while the write is dispatched.
C22_DispatchUsesSnapshot ==
  [][op'.name = "write" =>
       Shape(RegistrationSteps(1))' =
         PhaseOf(heap[op'.ref.v].cbs, "before") \o PhaseOf(heap[op'.ref.v].cbs, "after")]_vars

\* no node of the structure below ref carries the marker
NeverWrapped(h, ref) ==
  /\ ref.t = "raw"
  /\ \A n \in {ref.v} \cup Below(h, ref.v) : ~h[n].observed

\* C23: observed on a structure no node of which was wrapped before calls no
\* global hook, no read hook and no registration, and runs no set trap: it
\* returns the wrapper and leaves every registry as it was.
C23_FirstWrapIsSilent ==
  [][(op'.name = "observed" /\ NeverWrapped(heap, op'.ref)) =>
       /\ log' = <<>>
       /\ op'.err = NoErr
       /\ op'.ret = Prox(op'.ref.v)
       /\ \A o \in Objs : heap[o].hasCbs => heap'[o].cbs = heap[o].cbs]_vars

\* a two-level structure was wrapped with all three global hooks while the
\* root and its child carried registrations, and nothing was called
C23_Witness ==
  /\ op.name = "observed"
  /\ op.ref = Raw(1)
  /\ IsFunction(heap[1].opts.onBeforeSet)
  /\ IsFunction(heap[1].opts.onSet)
  /\ IsFunction(heap[1].opts.onGet)
  /\ heap[1].fields["a"] = Prox(2)
  /\ heap[2].observed
  /\ heap[1].cbs # <<>>
  /\ heap[2].cbs # <<>>
  /\ log = <<>>

====
